---- MODULE Spec2Model ----
(***************************************************************************)
(* A model of the aiohttp-rpc client engine:                                *)
(*   src/aiohttp_rpc/client/base.py      BaseJsonRpcClient                  *)
(*   src/aiohttp_rpc/protocol/request.py JsonRpcRequest, JsonRpcBatchRequest*)
(* Python values are records tagged with their type, so that any two values *)
(* can be compared (None, ids, results, errors, result collections).        *)
(***************************************************************************)
EXTENDS Integers, Sequences, FiniteSets, TLC

VARIABLES
    pc,             \* "idle", "awaiting" (suspended in send_json), "done"
    op,             \* the facade operation in progress
    request,        \* the local `request` / `batch_request` of the operation
    save_order,     \* batch()'s keyword argument
    wire,           \* the calls made to send_json: <<[data, without_response]>>
    json_response,  \* what send_json returned
    outcome,        \* how the operation ended
    scope,          \* position of an `async with client:` statement
    events,         \* connect / disconnect / body events of the session
    client,         \* the attributes of the client object (`self`)
    construction,   \* a request being built, serialized and parsed back
    tasks           \* the operations of concurrent tasks on one client

vars == <<pc, op, request, save_order, wire, json_response, outcome, scope, events,
          client, construction, tasks>>
opVars == <<pc, op, request, save_order, wire, json_response, outcome>>
sessionVars == <<scope, events>>
otherVars == <<client, construction, tasks>>

-----------------------------------------------------------------------------
(* Bounds of the model *)

\* longest list given as one method description
MaxDescLen == 4
\* longest list of method descriptions / requests in a batch
MaxReq == 2
\* longest batch response the transport returns
MaxResp == 3
\* most operations run in the body of one session
MaxOps == 2

-----------------------------------------------------------------------------
(* Python values *)

None == [type |-> "NoneType"]
NOTHING == [type |-> "NOTHING"]
JsonInt(n) == [type |-> "int", n |-> n]
JsonStr(s) == [type |-> "str", s |-> s]

\* typedefs.JsonRpcIdType: the ids utils.get_random_id() or a server may produce
Ids == {JsonInt(1), JsonInt(2)}
OptionalIds == Ids \cup {None}

Methods == {"m"}

\* results a server may answer with (null is a valid result)
Results == {JsonStr("x"), None}
\* error codes a server may answer with
ErrorCodes == {-32601}

\* all sequences over S of length lo..hi
SeqsOf(S, lo, hi) == UNION {[1..n -> S] : n \in lo..hi}

-----------------------------------------------------------------------------
(* protocol/request.py: JsonRpcRequest and JsonRpcBatchRequest *)

PyList(items) == [type |-> "list", items |-> items]
PyDict(pairs) == [type |-> "dict", pairs |-> pairs]
InvalidParams == [type |-> "InvalidParams"]
InvalidRequest == [type |-> "InvalidRequest"]
ParseError == [type |-> "ParseError"]
AssertionError == [type |-> "AssertionError"]
TransportError == [type |-> "TransportError"]
CancelledError == [type |-> "CancelledError"]

IsError(v) == "type" \in DOMAIN v /\ v.type \in {"InvalidParams", "InvalidRequest", "ParseError"}

\* bool(args) / bool(kwargs) of Python: None and empty containers are falsy
Truthy(v) ==
    CASE v.type = "NoneType" -> FALSE
      [] v.type = "list" -> Len(v.items) > 0
      [] v.type = "dict" -> v.pairs # {}
      [] v.type = "UnlinkedResults" -> Len(v.data) > 0
      [] OTHER -> TRUE

\* utils.parse_args_and_kwargs: the canonical params of (args, kwargs)
parse_args_and_kwargs(args, kwargs) ==
    IF ~Truthy(args) /\ ~Truthy(kwargs)
    THEN [params |-> NOTHING, args |-> PyList(<<>>), kwargs |-> PyDict({})]
    ELSE IF Truthy(args) /\ Truthy(kwargs)
    THEN InvalidParams
    ELSE IF Truthy(args)
    THEN [params |-> args, args |-> args, kwargs |-> PyDict({})]
    ELSE [params |-> kwargs, args |-> PyList(<<>>), kwargs |-> kwargs]

\* utils.convert_params_to_args_and_kwargs; a null params is a valid value
\* (request.py line 20) and is taken as one positional argument
convert_params_to_args_and_kwargs(params) ==
    CASE params.type = "list" -> [args |-> params, kwargs |-> PyDict({})]
      [] params.type = "NoneType" -> [args |-> PyList(<<params>>), kwargs |-> PyDict({})]
      [] params.type = "dict" -> [args |-> PyList(<<>>), kwargs |-> params]
      [] OTHER -> InvalidParams

\* __post_init__ with params taking precedence when both sides are given
JsonRpcRequest_params_win(method_name, id, params, args, kwargs) ==
    IF params = NOTHING
    THEN LET r == parse_args_and_kwargs(args, kwargs) IN
         IF IsError(r) THEN r
         ELSE [type |-> "JsonRpcRequest", method_name |-> method_name, id |-> id,
               jsonrpc |-> "2.0", params |-> r.params, args |-> r.args,
               kwargs |-> r.kwargs]
    ELSE LET r == convert_params_to_args_and_kwargs(params) IN
         IF IsError(r) THEN r
         ELSE [type |-> "JsonRpcRequest", method_name |-> method_name, id |-> id,
               jsonrpc |-> "2.0", params |-> params, args |-> r.args,
               kwargs |-> r.kwargs]

\* JsonRpcRequest(...) with __post_init__: the request, or the error raised
JsonRpcRequest(method_name, id, params, args, kwargs) ==
    IF params = NOTHING
    THEN LET r == parse_args_and_kwargs(args, kwargs) IN
         IF IsError(r) THEN r
         ELSE [type |-> "JsonRpcRequest", method_name |-> method_name, id |-> id,
               jsonrpc |-> "2.0", params |-> r.params, args |-> r.args,
               kwargs |-> r.kwargs]
    ELSE IF args = None /\ kwargs = None
    THEN LET r == convert_params_to_args_and_kwargs(params) IN
         IF IsError(r) THEN r
         ELSE [type |-> "JsonRpcRequest", method_name |-> method_name, id |-> id,
               jsonrpc |-> "2.0", params |-> params, args |-> r.args,
               kwargs |-> r.kwargs]
    ELSE InvalidParams

\* JsonRpcRequest.is_notification
is_notification(req) == req.id = None

\* to_dict with `if self.params:` in the place of `is not constants.NOTHING`
to_dict_if_params(req) ==
    LET data == [method |-> JsonStr(req.method_name), jsonrpc |-> JsonStr(req.jsonrpc)]
        with_id == IF ~is_notification(req) THEN data @@ [id |-> req.id] ELSE data
    IN  IF req.params # NOTHING /\ Truthy(req.params)
        THEN with_id @@ [params |-> req.params] ELSE with_id

\* JsonRpcRequest.to_dict: the wire mapping; a key the code does not set is
\* not in the DOMAIN of the mapping
to_dict(req) ==
    LET data == [method |-> JsonStr(req.method_name), jsonrpc |-> JsonStr(req.jsonrpc)]
        with_id == IF ~is_notification(req) THEN data @@ [id |-> req.id] ELSE data
    IN  IF req.params # NOTHING THEN with_id @@ [params |-> req.params] ELSE with_id

\* utils.validate_jsonrpc: the error raised, or None
validate_jsonrpc(jsonrpc) ==
    IF jsonrpc = JsonStr("2.0") THEN None ELSE InvalidRequest

\* lines 75-83: JsonRpcRequest._validate_json_request of a wire mapping
validate_json_request(data) ==
    IF ~({"method", "jsonrpc"} \subseteq DOMAIN data) THEN InvalidRequest
    ELSE validate_jsonrpc(data.jsonrpc)

\* from_dict with `data.get('params')`, a missing key read as null
from_dict_params_null(data) ==
    IF IsError(validate_json_request(data)) THEN validate_json_request(data)
    ELSE JsonRpcRequest(data.method.s,
                        IF "id" \in DOMAIN data THEN data.id ELSE None,
                        IF "params" \in DOMAIN data THEN data.params ELSE None,
                        None, None)

\* lines 49-59: JsonRpcRequest.from_dict, the request or the error raised
from_dict(data) ==
    IF IsError(validate_json_request(data)) THEN validate_json_request(data)
    ELSE JsonRpcRequest(data.method.s,
                        IF "id" \in DOMAIN data THEN data.id ELSE None,
                        IF "params" \in DOMAIN data THEN data.params ELSE NOTHING,
                        None, None)

\* JsonRpcBatchRequest(requests=...): a dataclass without validation
JsonRpcBatchRequest(requests) == [type |-> "JsonRpcBatchRequest", requests |-> requests]

\* is_notification with any() in the place of all()
batch_is_notification_any(batch_request) ==
    \E i \in 1..Len(batch_request.requests) : is_notification(batch_request.requests[i])

\* JsonRpcBatchRequest.is_notification
batch_is_notification(batch_request) ==
    \A i \in 1..Len(batch_request.requests) : is_notification(batch_request.requests[i])

\* JsonRpcBatchRequest.to_list
to_list(batch_request) ==
    [i \in 1..Len(batch_request.requests) |-> to_dict(batch_request.requests[i])]

-----------------------------------------------------------------------------
(* protocol/response.py and errors.py: responses and the error table *)

\* errors.DEFAULT_KNOWN_ERRORS as a table code -> error class
DEFAULT_KNOWN_ERRORS ==
    [c \in {-32700, -32600, -32601, -32602, -32603} |->
        CASE c = -32700 -> "ParseError"
          [] c = -32600 -> "InvalidRequest"
          [] c = -32601 -> "MethodNotFound"
          [] c = -32602 -> "InvalidParams"
          [] OTHER -> "InternalError"]

\* BaseJsonRpcClient.error_map: the class attribute, the default table unless
\* a client class sets its own
error_map == client.error_map

\* a table of a client class that maps a known code to an error class of its own
CustomErrorMap == [DEFAULT_KNOWN_ERRORS EXCEPT ![-32601] = "CustomMethodNotFound"]

\* the error object of a wire response resolved against a table; an unknown
\* code gives the generic error kind
ResolveError(code, table) ==
    [type |-> "JsonRpcError",
     class |-> IF code \in DOMAIN table THEN table[code] ELSE "JsonRpcError",
     code |-> code]

\* the wire shape of one response
WireResponses ==
    {[id |-> i, result |-> r] : i \in OptionalIds, r \in Results}
    \cup {[id |-> i, error |-> c] : i \in OptionalIds, c \in ErrorCodes}

\* JsonRpcResponse.from_dict of a wire mapping
JsonRpcResponse_from_dict(data, table) ==
    IF "error" \in DOMAIN data
    THEN [type |-> "JsonRpcResponse", id |-> data.id, result |-> None,
          error |-> ResolveError(data.error, table)]
    ELSE [type |-> "JsonRpcResponse", id |-> data.id, result |-> data.result,
          error |-> None]

\* JsonRpcBatchResponse.from_list of a wire list
JsonRpcBatchResponse_from_list(data, table) ==
    [type |-> "JsonRpcBatchResponse",
     responses |-> [j \in 1..Len(data) |-> JsonRpcResponse_from_dict(data[j], table)]]

\* protocol.UnlinkedResults / protocol.DuplicatedResults and their add()
UnlinkedResults(data) == [type |-> "UnlinkedResults", data |-> data]
DuplicatedResults(data) == [type |-> "DuplicatedResults", data |-> data]
ResultsAdd(results, value) == [results EXCEPT !.data = Append(@, value)]

-----------------------------------------------------------------------------
(* client/base.py: BaseJsonRpcClient._collect_batch_result *)

EmptyMap == [k \in {} |-> None]

\* lines 147-150: a response's value is its result, or its error as a value
ResponseValue(response) ==
    IF response.error = None THEN response.result ELSE response.error

\* MapAdd with a later response replacing an earlier one of the same id
MapAddOverwrite(responses_map, id, value) ==
    (id :> value) @@ responses_map

\* lines 156-165: record a value under a non-null id
MapAdd(responses_map, id, value) ==
    IF id \in DOMAIN responses_map
    THEN IF responses_map[id].type = "DuplicatedResults"
         THEN [responses_map EXCEPT ![id] = ResultsAdd(@, value)]
         ELSE [responses_map EXCEPT ![id] = DuplicatedResults(<<@, value>>)]
    ELSE (id :> value) @@ responses_map

\* lines 146-165: the loop over the responses, from response i on
RECURSIVE CollectResponses(_, _, _, _)
CollectResponses(responses, i, unlinked_results, responses_map) ==
    IF i > Len(responses)
    THEN [unlinked_results |-> unlinked_results, responses_map |-> responses_map]
    ELSE LET response == responses[i]
             value == ResponseValue(response)
         IN  IF response.id = None
             THEN CollectResponses(responses, i + 1,
                                   ResultsAdd(unlinked_results, value), responses_map)
             ELSE CollectResponses(responses, i + 1, unlinked_results,
                                   MapAdd(responses_map, response.id, value))

\* `unlinked_results or None`
OrNone(v) == IF Truthy(v) THEN v ELSE None

\* Slot with the unlinked results taking precedence over the request's own
SlotUnlinkedFirst(req, unlinked_results, responses_map) ==
    IF Truthy(unlinked_results) \/ is_notification(req) \/ req.id \notin DOMAIN responses_map
    THEN OrNone(unlinked_results)
    ELSE responses_map[req.id]

\* Slot with `responses_map.get(request.id)`, the fallback left out
SlotNoFallback(req, unlinked_results, responses_map) ==
    IF is_notification(req)
    THEN OrNone(unlinked_results)
    ELSE IF req.id \in DOMAIN responses_map
         THEN responses_map[req.id]
         ELSE None

\* lines 170-173: the slot of one request
Slot(req, unlinked_results, responses_map) ==
    IF is_notification(req)
    THEN OrNone(unlinked_results)
    ELSE IF req.id \in DOMAIN responses_map
         THEN responses_map[req.id]
         ELSE OrNone(unlinked_results)

\* _collect_batch_result with the result built while walking the responses
collect_by_responses(batch_request, batch_response) ==
    [j \in 1..Len(batch_response.responses) |-> ResponseValue(batch_response.responses[j])]

\* lines 141-175
collect_batch_result(batch_request, batch_response) ==
    LET c == CollectResponses(batch_response.responses, 1, UnlinkedResults(<<>>), EmptyMap)
    IN  [i \in 1..Len(batch_request.requests) |->
            Slot(batch_request.requests[i], c.unlinked_results, c.responses_map)]

-----------------------------------------------------------------------------
(* client/base.py: the shorthand descriptions of batch() and batch_notify() *)

\* pre-built JsonRpcRequest objects a caller may pass, with or without an id
PrebuiltRequests ==
    {JsonRpcRequest(m, i, NOTHING, None, None) : m \in Methods, i \in OptionalIds}

\* typedefs.MethodDescriptionType: a string, a list or tuple, or a request
Descriptions ==
    {[form |-> "str", method |-> m] : m \in Methods}
    \cup {[form |-> "seq", items |-> <<>>]}
    \cup {[form |-> "seq", items |-> <<m>>] : m \in Methods}
    \cup {[form |-> "seq", items |-> <<m, None, None>>] : m \in Methods}
    \cup {[form |-> "seq", items |-> <<m, None, None, None>>] : m \in Methods}
    \cup {[form |-> "seq", items |-> <<m, PyList(<<JsonInt(1)>>), PyDict({<<"k", JsonInt(1)>>})>>] :
            m \in Methods}
    \cup {[form |-> "request", request |-> r] : r \in PrebuiltRequests}

\* typedefs.MethodDescriptionsType: an iterable of descriptions, or a batch request
MethodDescriptions ==
    {[form |-> "iterable", items |-> ds] : ds \in SeqsOf(Descriptions, 0, MaxReq)}
    \cup {[form |-> "batch", batch_request |-> JsonRpcBatchRequest(rs)] :
            rs \in SeqsOf(PrebuiltRequests, 0, MaxReq)}

\* _parse_method_description with every list longer than two taken as
\* (method, args, kwargs)
parse_method_description_long(method_description, notification, random_id) ==
    IF method_description.form = "request"
    THEN method_description.request
    ELSE LET request_id == IF notification THEN None ELSE random_id IN
         IF method_description.form = "str"
         THEN JsonRpcRequest(method_description.method, request_id, NOTHING, None, None)
         ELSE LET d == method_description.items IN
              CASE Len(d) = 0 -> InvalidParams
                [] Len(d) = 1 -> JsonRpcRequest(d[1], request_id, NOTHING, None, None)
                [] Len(d) = 2 -> JsonRpcRequest(d[1], request_id, d[2], None, None)
                [] OTHER -> JsonRpcRequest(d[1], request_id, NOTHING, d[2], d[3])

\* lines 177-212; random_id is what utils.get_random_id() returns
parse_method_description(method_description, notification, random_id) ==
    IF method_description.form = "request"
    THEN method_description.request
    ELSE LET request_id == IF notification THEN None ELSE random_id IN
         IF method_description.form = "str"
         THEN JsonRpcRequest(method_description.method, request_id, NOTHING, None, None)
         ELSE LET d == method_description.items IN
              CASE Len(d) = 1 -> JsonRpcRequest(d[1], request_id, NOTHING, None, None)
                [] Len(d) = 2 -> JsonRpcRequest(d[1], request_id, d[2], None, None)
                [] Len(d) = 3 -> JsonRpcRequest(d[1], request_id, NOTHING, d[2], d[3])
                [] OTHER -> InvalidParams

\* lines 60-66 and 81-87: the batch request built from the argument, or the
\* first error raised while building it
BuildBatchRequest(method_descriptions, notification, random_ids) ==
    IF method_descriptions.form = "batch"
    THEN method_descriptions.batch_request
    ELSE LET ds == method_descriptions.items
             rs == [i \in 1..Len(ds) |->
                      parse_method_description(ds[i], notification, random_ids[i])]
             bad == {i \in 1..Len(ds) : IsError(rs[i])}
         IN  IF bad = {} THEN JsonRpcBatchRequest(rs)
             ELSE rs[CHOOSE i \in bad : \A k \in bad : i <= k]

-----------------------------------------------------------------------------
(* client/base.py: the facade operations.  Each operation suspends once, in *)
(* `await self.send_json(...)`: one action runs it up to that await, and a  *)
(* second one runs it from the transport's return to its end.               *)

Pending == [kind |-> "pending"]
Return(value) == [kind |-> "return", value |-> value]
Raise(error) == [kind |-> "raise", error |-> error]

\* what a transport may hand back for a single request
RawSingle == {None} \cup WireResponses
\* what a transport may hand back for a batch: nothing, or a list of responses
RawBatch == {None} \cup {PyList(rs) : rs \in SeqsOf(WireResponses, 0, MaxResp)}
\* what a transport may hand back when told without_response
RawIgnored == {None, PyList(<<[id |-> None, result |-> None]>>)}

Finish(result) ==
    /\ pc' = "done"
    /\ outcome' = result

\* lines 94-98 / 119-123: the call of send_json, where the operation suspends
send_json(data, without_response) ==
    /\ wire' = Append(wire, [data |-> data, without_response |-> without_response])
    /\ pc' = "awaiting"
    /\ UNCHANGED <<outcome, json_response>>

\* the *args and **kwargs a caller may give call() and notify()
CallArgs == {PyList(<<>>), PyList(<<JsonInt(1)>>)}
CallKwargs == {PyDict({}), PyDict({<<"k", JsonInt(1)>>})}

\* lines 43 / 54 and 94-98: the request is built, which may raise, and sent
StartSingle(req) ==
    IF IsError(req)
    THEN /\ request' = None
         /\ Finish(Raise(req))
         /\ UNCHANGED <<wire, json_response>>
    ELSE /\ request' = req
         /\ send_json(to_dict(req), is_notification(req))

\* lines 42-44 and 91-98: call() up to the await
call ==
    /\ pc = "idle"
    /\ \E method_name \in Methods, random_id \in Ids, args \in CallArgs, kwargs \in CallKwargs :
        LET req == JsonRpcRequest(method_name, random_id, NOTHING, args, kwargs)
        IN  /\ op' = "call"
            /\ StartSingle(req)
    /\ UNCHANGED <<save_order, sessionVars, otherVars>>

\* lines 53-55 and 91-98: notify() up to the await
notify ==
    /\ pc = "idle"
    /\ \E method_name \in Methods, args \in CallArgs, kwargs \in CallKwargs :
        LET req == JsonRpcRequest(method_name, None, NOTHING, args, kwargs)
        IN  /\ op' = "notify"
            /\ StartSingle(req)
    /\ UNCHANGED <<save_order, sessionVars, otherVars>>

\* direct_batch without the check of lines 114-115
direct_batch_unchecked(batch_request) ==
    send_json(to_list(batch_request), batch_is_notification(batch_request))

\* direct_batch with the check of lines 114-115 made after the send
direct_batch_send_first(batch_request) ==
    IF Len(batch_request.requests) = 0
    THEN /\ wire' = Append(wire, [data |-> to_list(batch_request), without_response |-> TRUE])
         /\ Finish(Raise(InvalidRequest))
         /\ UNCHANGED json_response
    ELSE send_json(to_list(batch_request), batch_is_notification(batch_request))

\* lines 111-123: direct_batch() up to the await
direct_batch(batch_request) ==
    IF Len(batch_request.requests) = 0
    THEN /\ Finish(Raise(InvalidRequest))
         /\ UNCHANGED <<wire, json_response>>
    ELSE send_json(to_list(batch_request), batch_is_notification(batch_request))

\* lines 57-68 and 80-89: batch() and batch_notify() up to the await
StartBatch(name, method_descriptions, notification, random_ids) ==
    LET built == BuildBatchRequest(method_descriptions, notification, random_ids) IN
    /\ op' = name
    /\ IF IsError(built)
       THEN /\ request' = None
            /\ Finish(Raise(built))
            /\ UNCHANGED <<wire, json_response>>
       ELSE /\ request' = built
            /\ direct_batch(built)

batch ==
    /\ pc = "idle"
    /\ \E method_descriptions \in MethodDescriptions, so \in BOOLEAN,
          random_ids \in [1..MaxReq -> Ids] :
        /\ save_order' = so
        /\ StartBatch("batch", method_descriptions, FALSE, random_ids)
    /\ UNCHANGED <<sessionVars, otherVars>>

batch_notify ==
    /\ pc = "idle"
    /\ \E method_descriptions \in MethodDescriptions, random_ids \in [1..MaxReq -> Ids] :
        StartBatch("batch_notify", method_descriptions, TRUE, random_ids)
    /\ UNCHANGED <<save_order, sessionVars, otherVars>>

\* a value handed on inside an operation (not yet its outcome)
Value(v) == [kind |-> "value", value |-> v]

\* what JsonRpcResponse.from_dict raises when it is given no mapping at all
FromDictFaults == {ParseError, InvalidRequest, [type |-> "TypeError"]}

\* lines 100-109: direct_call() after the await
direct_call_rest(req, raw, fault) ==
    IF is_notification(req) THEN Value(None)
    ELSE IF raw = None THEN Raise(fault)
    ELSE Value(JsonRpcResponse_from_dict(raw, error_map))

\* call() with the error of the response returned instead of raised
call_rest_error_returned(response) ==
    IF response.kind = "raise" THEN response
    ELSE IF response.value = None THEN Raise(AssertionError)
    ELSE IF response.value.error # None THEN Return(response.value.error)
    ELSE Return(response.value.result)

\* lines 46-51: call() after direct_call returned
call_rest(response) ==
    IF response.kind = "raise" THEN response
    ELSE IF response.value = None THEN Raise(AssertionError)
    ELSE IF response.value.error # None THEN Raise(response.value.error)
    ELSE Return(response.value.result)

\* line 55: notify() after direct_call returned
notify_rest(response) ==
    IF response.kind = "raise" THEN response ELSE Return(None)

\* direct_batch without the check of lines 128-129
direct_batch_rest_unchecked(batch_request, raw) ==
    IF batch_is_notification(batch_request) THEN Value(None)
    ELSE Value(JsonRpcBatchResponse_from_list(IF Truthy(raw) THEN raw.items ELSE <<>>,
                                              DEFAULT_KNOWN_ERRORS))

\* lines 125-131: direct_batch() after the await; from_list is given no
\* error_map and so resolves errors against its own default table
direct_batch_rest(batch_request, raw) ==
    IF batch_is_notification(batch_request) THEN Value(None)
    ELSE IF ~Truthy(raw) THEN Raise(ParseError)
    ELSE Value(JsonRpcBatchResponse_from_list(raw.items, DEFAULT_KNOWN_ERRORS))

\* lines 75-78: the results in wire order
RawResults(batch_response) ==
    [j \in 1..Len(batch_response.responses) |-> ResponseValue(batch_response.responses[j])]

\* batch() that correlates whatever save_order says
batch_rest_always_collect(batch_request, batch_response, so) ==
    IF batch_response.kind = "raise" THEN batch_response
    ELSE IF batch_response.value = None THEN Raise(AssertionError)
    ELSE Return(PyList(collect_batch_result(batch_request, batch_response.value)))

\* batch() without the assert of line 70, an absent response read as empty
batch_rest_no_assert(batch_request, batch_response, so) ==
    IF batch_response.kind = "raise" THEN batch_response
    ELSE IF batch_response.value = None THEN Return(PyList(<<>>))
    ELSE IF so THEN Return(PyList(collect_batch_result(batch_request, batch_response.value)))
    ELSE Return(PyList([j \in 1..Len(batch_response.value.responses) |->
                           ResponseValue(batch_response.value.responses[j])]))

\* lines 70-78: batch() after direct_batch returned
batch_rest(batch_request, batch_response, so) ==
    IF batch_response.kind = "raise" THEN batch_response
    ELSE IF batch_response.value = None THEN Raise(AssertionError)
    ELSE IF so THEN Return(PyList(collect_batch_result(batch_request, batch_response.value)))
    ELSE Return(PyList(RawResults(batch_response.value)))

\* line 89: batch_notify() after direct_batch returned
batch_notify_rest(batch_response) ==
    IF batch_response.kind = "raise" THEN batch_response ELSE Return(None)

\* the raw responses a transport may return to the pending send
RawFor(without_response, single) ==
    IF without_response THEN RawIgnored
    ELSE IF single THEN RawSingle ELSE RawBatch

Resume(name, single) ==
    /\ pc = "awaiting"
    /\ op = name
    /\ \E raw \in RawFor(wire[Len(wire)].without_response, single) :
        json_response' = raw
    /\ pc' = "done"
    /\ UNCHANGED <<op, request, save_order, wire, sessionVars, otherVars>>

call_return ==
    /\ Resume("call", TRUE)
    /\ \E fault \in FromDictFaults :
        outcome' = call_rest(direct_call_rest(request, json_response', fault))

notify_return ==
    /\ Resume("notify", TRUE)
    /\ \E fault \in FromDictFaults :
        outcome' = notify_rest(direct_call_rest(request, json_response', fault))

batch_return ==
    /\ Resume("batch", FALSE)
    /\ outcome' = batch_rest(request, direct_batch_rest(request, json_response'), save_order)

batch_notify_return ==
    /\ Resume("batch_notify", FALSE)
    /\ outcome' = batch_notify_rest(direct_batch_rest(request, json_response'))

\* send_json raises instead of returning: the exception leaves the operation
send_json_raises ==
    /\ pc = "awaiting"
    /\ Finish(Raise(TransportError))
    /\ UNCHANGED <<op, request, save_order, wire, json_response, sessionVars, otherVars>>

-----------------------------------------------------------------------------
(* client/base.py lines 21-29: the client as `async with client:`.          *)
(* Python enters the body only when __aenter__ returned, and calls          *)
(* __aexit__ when the body is left, however it is left; an exception raised *)
(* by __aenter__ leaves the statement without a call of __aexit__.          *)

\* lines 21-22: __aenter__ up to `await self.connect()`
aenter ==
    /\ scope = "outside"
    /\ scope' = "connecting"
    /\ UNCHANGED <<events, opVars, otherVars>>

\* lines 22-23: connect() returned, __aenter__ returns and the body starts
connect_returns ==
    /\ scope = "connecting"
    /\ scope' = "body"
    /\ events' = Append(events, "connect")
    /\ UNCHANGED <<opVars, otherVars>>

\* line 22: connect() raised, or the task was cancelled while it waited
connect_raises ==
    /\ scope = "connecting"
    /\ scope' = "closed"
    /\ events' = Append(events, "connect_failed")
    /\ UNCHANGED <<opVars, otherVars>>

\* __aexit__ that disconnects only when the body raised nothing
aexit_if_no_exception(exc_type) ==
    /\ scope' = "disconnecting"
    /\ events' = IF exc_type = "exit_normal"
                 THEN events \o <<exc_type, "disconnect">>
                 ELSE Append(events, exc_type)

\* lines 25-29: __aexit__ up to `await self.disconnect()`
aexit(exc_type) ==
    /\ scope' = "disconnecting"
    /\ events' = events \o <<exc_type, "disconnect">>

\* an operation of the body
body_call == scope = "body" /\ call
body_notify == scope = "body" /\ notify
body_call_return == scope = "body" /\ call_return
body_notify_return == scope = "body" /\ notify_return
body_send_json_raises == scope = "body" /\ send_json_raises

\* the body goes on to its next operation (after a result, or after it
\* caught the exception of the last one)
body_continues ==
    /\ scope = "body"
    /\ pc = "done"
    /\ Len(wire) < MaxOps
    /\ pc' = "idle"
    /\ op' = "none"
    /\ request' = None
    /\ json_response' = None
    /\ outcome' = Pending
    /\ UNCHANGED <<save_order, wire, sessionVars, otherVars>>

\* the body runs to its end
body_completes ==
    /\ scope = "body"
    /\ pc \in {"idle", "done"}
    /\ aexit("exit_normal")
    /\ UNCHANGED <<opVars, otherVars>>

\* the exception of an operation leaves the body
body_raises ==
    /\ scope = "body"
    /\ pc = "done"
    /\ outcome.kind = "raise"
    /\ aexit("exit_exception")
    /\ UNCHANGED <<opVars, otherVars>>

\* the task is cancelled while the body waits for the transport
body_cancelled ==
    /\ scope = "body"
    /\ pc = "awaiting"
    /\ Finish(Raise(CancelledError))
    /\ aexit("exit_cancelled")
    /\ UNCHANGED <<op, request, save_order, wire, json_response, otherVars>>

\* line 29: disconnect() returned
disconnect_returns ==
    /\ scope = "disconnecting"
    /\ scope' = "closed"
    /\ UNCHANGED <<events, opVars, otherVars>>

-----------------------------------------------------------------------------

Init ==
    /\ pc = "idle"
    /\ op = "none"
    /\ request = None
    /\ save_order = TRUE
    /\ wire = <<>>
    /\ json_response = None
    /\ outcome = Pending
    /\ scope = "outside"
    /\ events = <<>>
    /\ client = [error_map |-> DEFAULT_KNOWN_ERRORS]
    /\ construction = None
    /\ tasks = <<>>

Next ==
    \/ call
    \/ notify
    \/ batch
    \/ batch_notify
    \/ call_return
    \/ notify_return
    \/ batch_return
    \/ batch_notify_return
    \/ send_json_raises

Spec == Init /\ [][Next]_vars

\* the facade operations of a client whose class may set its own error_map
InitErrors ==
    /\ pc = "idle"
    /\ op = "none"
    /\ request = None
    /\ save_order = TRUE
    /\ wire = <<>>
    /\ json_response = None
    /\ outcome = Pending
    /\ scope = "outside"
    /\ events = <<>>
    /\ client \in {[error_map |-> t] : t \in {DEFAULT_KNOWN_ERRORS, CustomErrorMap}}
    /\ construction = None
    /\ tasks = <<>>

SpecErrors == InitErrors /\ [][Next]_vars

-----------------------------------------------------------------------------
(* protocol/request.py and _parse_method_description on their own: a       *)
(* request is built from constructor arguments or from a description, then *)
(* serialized with to_dict and parsed back with from_dict.                 *)

ParamsChoices ==
    {None, PyList(<<>>), PyList(<<JsonInt(1)>>), PyDict({}), PyDict({<<"k", JsonInt(1)>>})}
ArgsChoices == {None, PyList(<<>>), PyList(<<JsonInt(1)>>)}
KwargsChoices == {None, PyDict({}), PyDict({<<"k", JsonInt(1)>>})}

\* arguments of JsonRpcRequest(...)
ConstructorInputs ==
    [how : {"init"}, method_name : Methods, id : OptionalIds,
     params : ParamsChoices \cup {NOTHING}, args : ArgsChoices, kwargs : KwargsChoices]

\* every shape of typedefs.MethodDescriptionType
AllDescriptions ==
    {[form |-> "str", method |-> m] : m \in Methods}
    \cup {[form |-> "seq", items |-> <<>>]}
    \cup {[form |-> "seq", items |-> <<m>>] : m \in Methods}
    \cup {[form |-> "seq", items |-> <<m, p>>] : m \in Methods, p \in ParamsChoices}
    \cup {[form |-> "seq", items |-> <<m, a, k>>] :
            m \in Methods, a \in ArgsChoices, k \in KwargsChoices}
    \cup {[form |-> "seq", items |-> <<m>> \o [i \in 1..(n - 1) |-> None]] :
            m \in Methods, n \in 4..MaxDescLen}
    \cup {[form |-> "request", request |-> r] : r \in PrebuiltRequests}

\* arguments of _parse_method_description(...)
DescriptionInputs ==
    [how : {"description"}, description : AllDescriptions, notification : BOOLEAN,
     random_id : Ids]

InitRequest ==
    /\ pc = "idle"
    /\ op = "none"
    /\ request = None
    /\ save_order = TRUE
    /\ wire = <<>>
    /\ json_response = None
    /\ outcome = Pending
    /\ scope = "outside"
    /\ events = <<>>
    /\ client = [error_map |-> DEFAULT_KNOWN_ERRORS]
    /\ construction \in {[pc |-> "new", input |-> i] :
                            i \in ConstructorInputs \cup DescriptionInputs}
    /\ tasks = <<>>

requestFrame == <<opVars, sessionVars, client, tasks>>

\* JsonRpcRequest(...): the request, or the error __post_init__ raises
construct ==
    /\ construction.pc = "new"
    /\ construction.input.how = "init"
    /\ LET i == construction.input IN
        construction' = [pc |-> "built", input |-> i,
                         request |-> JsonRpcRequest(i.method_name, i.id, i.params,
                                                    i.args, i.kwargs)]
    /\ UNCHANGED requestFrame

\* _parse_method_description(...): the request, or the error raised
describe ==
    /\ construction.pc = "new"
    /\ construction.input.how = "description"
    /\ LET i == construction.input IN
        construction' = [pc |-> "built", input |-> i,
                         request |-> parse_method_description(i.description,
                                                              i.notification, i.random_id)]
    /\ UNCHANGED requestFrame

\* request.to_dict()
serialize ==
    /\ construction.pc = "built"
    /\ ~IsError(construction.request)
    /\ construction' = [construction EXCEPT !.pc = "serialized"] @@
                          [data |-> to_dict(construction.request)]
    /\ UNCHANGED requestFrame

\* JsonRpcRequest.from_dict(data)
deserialize ==
    /\ construction.pc = "serialized"
    /\ construction' = [construction EXCEPT !.pc = "parsed"] @@
                          [parsed |-> from_dict(construction.data)]
    /\ UNCHANGED requestFrame

NextRequest ==
    \/ construct
    \/ describe
    \/ serialize
    \/ deserialize

SpecRequest == InitRequest /\ [][NextRequest]_vars

NextSession ==
    \/ aenter
    \/ connect_returns
    \/ connect_raises
    \/ body_call
    \/ body_notify
    \/ body_call_return
    \/ body_notify_return
    \/ body_send_json_raises
    \/ body_continues
    \/ body_completes
    \/ body_raises
    \/ body_cancelled
    \/ disconnect_returns

SpecSession == Init /\ [][NextSession]_vars

-----------------------------------------------------------------------------
(* Properties of batch correlation, stated on the state in which batch()    *)
(* ended, against the requests sent and the responses received.             *)

\* batch(save_order=True) received a non-empty response for a batch with an id
CollectReached ==
    /\ pc = "done"
    /\ op = "batch"
    /\ save_order
    /\ request.type = "JsonRpcBatchRequest"
    /\ Len(request.requests) > 0
    /\ ~batch_is_notification(request)
    /\ Truthy(json_response)

Requests == request.requests
Responses == JsonRpcBatchResponse_from_list(json_response.items, DEFAULT_KNOWN_ERRORS).responses
Slots == outcome.value.items

\* the values of the responses that carry `id`, in wire order
RECURSIVE ValuesOf(_, _)
ValuesOf(responses, id) ==
    IF responses = <<>> THEN <<>>
    ELSE LET r == Head(responses)
             v == IF r.error = None THEN r.result ELSE r.error
         IN  (IF r.id = id THEN <<v>> ELSE <<>>) \o ValuesOf(Tail(responses), id)

\* what a request is owed: its response's value, all of them when the id was
\* answered more than once, and otherwise the unlinked values or None
Owed(req, responses) ==
    LET mine == IF req.id = None THEN <<>> ELSE ValuesOf(responses, req.id)
        unlinked == ValuesOf(responses, None)
    IN  CASE Len(mine) = 1 -> mine[1]
          [] Len(mine) > 1 -> DuplicatedResults(mine)
          [] OTHER -> IF unlinked = <<>> THEN None ELSE UnlinkedResults(unlinked)

\* C1: _collect_batch_result returns, without raising, a list with exactly one
\* slot per request of the batch, slot i holding what request i is owed,
\* whatever the order, ids and number of the responses.
C1_CollectTotal ==
    CollectReached =>
        /\ outcome.kind = "return"
        /\ Len(Slots) = Len(Requests)
        /\ \A i \in 1..Len(Requests) : Slots[i] = Owed(Requests[i], Responses)

\* a batch of two requests answered by three responses, none in request order
C1_Witness ==
    /\ CollectReached
    /\ Len(Requests) = 2
    /\ Len(Responses) = 3
    /\ Requests[1].id # None
    /\ Responses[1].id # Requests[1].id
    /\ \E j \in 1..3 : Responses[j].id \notin {None, Requests[1].id, Requests[2].id}

\* C2: a request whose id is on exactly one response gets that response's
\* result, or its error as a value, wherever the response is in the list and
\* whether or not unlinked responses are present; nothing is raised.
C2_ExactMatch ==
    CollectReached =>
        /\ outcome.kind = "return"
        /\ \A i \in 1..Len(Requests) : \A j \in 1..Len(Responses) :
            ( /\ Requests[i].id # None
              /\ Responses[j].id = Requests[i].id
              /\ \A k \in 1..Len(Responses) : Responses[k].id = Requests[i].id => k = j )
            => Slots[i] = (IF Responses[j].error = None
                           THEN Responses[j].result
                           ELSE Responses[j].error)

\* the only response of a request is an error, behind an unlinked response
C2_Witness ==
    /\ CollectReached
    /\ \E i \in 1..Len(Requests) : \E j \in 2..Len(Responses) :
        /\ Requests[i].id # None
        /\ Responses[j].id = Requests[i].id
        /\ \A k \in 1..Len(Responses) : Responses[k].id = Requests[i].id => k = j
        /\ Responses[j].error # None
        /\ Responses[1].id = None
        /\ Slots[i] = Responses[j].error

\* C3: when k >= 2 responses carry a request's id, the request's slot is a
\* duplicate-collection of all k values in wire order.
C3_Duplicates ==
    CollectReached =>
        \A i \in 1..Len(Requests) :
            ( /\ Requests[i].id # None
              /\ Len(ValuesOf(Responses, Requests[i].id)) >= 2 )
            => Slots[i] = DuplicatedResults(ValuesOf(Responses, Requests[i].id))

\* three responses with the same id, not all with the same value
C3_Witness ==
    /\ CollectReached
    /\ \E i \in 1..Len(Requests) :
        /\ Requests[i].id # None
        /\ Len(ValuesOf(Responses, Requests[i].id)) = 3
        /\ Slots[i].type = "DuplicatedResults"
        /\ Slots[i].data[1] # Slots[i].data[3]

\* C4: the value of every null-id response is in the result batch() returns,
\* in an unlinked collection.
C4_UnlinkedPreserved ==
    CollectReached =>
        \A j \in 1..Len(Responses) :
            Responses[j].id = None =>
                \E i \in 1..Len(Slots) :
                    /\ Slots[i].type = "UnlinkedResults"
                    /\ Slots[i].data = ValuesOf(Responses, None)

\* C5: a notification, and a request whose id is on no response, get the
\* unlinked collection when there is a null-id response and None otherwise.
C5_Fallback ==
    CollectReached =>
        \A i \in 1..Len(Requests) :
            ( \/ Requests[i].id = None
              \/ \A j \in 1..Len(Responses) : Responses[j].id # Requests[i].id )
            => Slots[i] = (IF ValuesOf(Responses, None) = <<>>
                           THEN None
                           ELSE UnlinkedResults(ValuesOf(Responses, None)))

\* a notification and an unanswered request, with two unlinked responses
\* beside a response that carries an id
C5_Witness ==
    /\ CollectReached
    /\ Len(Requests) = 2
    /\ Requests[1].id = None
    /\ Requests[2].id # None
    /\ \A j \in 1..Len(Responses) : Responses[j].id # Requests[2].id
    /\ Len(ValuesOf(Responses, None)) = 2
    /\ Len(Responses) = 3
    /\ Slots[1] = Slots[2]
    /\ Slots[1].type = "UnlinkedResults"

-----------------------------------------------------------------------------
(* Properties of the facade operations *)

\* the operation's request went to the transport and send_json returned
Answered(name) ==
    /\ pc = "done"
    /\ op = name
    /\ Len(wire) = 1
    /\ outcome # Raise(TransportError)
    /\ outcome # Raise(CancelledError)

C7_NoEmptyBatchRequest ==
    request.type = "JsonRpcBatchRequest" => Len(request.requests) > 0

\* C7 as amended: an empty batch request can be built, but direct_batch
\* rejects it with InvalidRequest before anything is handed to the transport.
C7_EmptyBatchNotSent ==
    ( /\ pc # "idle"
      /\ request.type = "JsonRpcBatchRequest"
      /\ Len(request.requests) = 0 )
    => /\ pc = "done"
       /\ outcome = Raise(InvalidRequest)
       /\ wire = <<>>

\* batch_notify() of an empty list of descriptions
C7_Witness ==
    /\ op = "batch_notify"
    /\ request = JsonRpcBatchRequest(<<>>)
    /\ outcome = Raise(InvalidRequest)

\* C8: when a batch with at least one id gets an empty or absent raw
\* response, batch() fails with ParseError.
C8_EmptyResponse ==
    ( /\ Answered("batch")
      /\ ~batch_is_notification(request)
      /\ ~Truthy(json_response) )
    => outcome = Raise(ParseError)

\* the transport answered a batch with the empty list
C8_Witness ==
    /\ Answered("batch")
    /\ ~batch_is_notification(request)
    /\ json_response = PyList(<<>>)
    /\ outcome = Raise(ParseError)

\* C9: every request batch_notify() sends has no id, the transport is told
\* without_response, and nothing is returned.
C9_BatchNotifyForced ==
    (op = "batch_notify" /\ Len(wire) = 1) =>
        /\ \A i \in 1..Len(wire[1].data) : "id" \notin DOMAIN wire[1].data[i]
        /\ wire[1].without_response
        /\ outcome \in {Pending, Return(None), Raise(TransportError)}

\* C11: batch(save_order=False) returns one entry per response, in wire
\* order: the response's result, or its error as a value; nothing is raised.
C11_WireOrder ==
    ( /\ Answered("batch")
      /\ ~save_order
      /\ ~batch_is_notification(request)
      /\ Truthy(json_response) )
    => /\ outcome.kind = "return"
       /\ Len(outcome.value.items) = Len(json_response.items)
       /\ \A j \in 1..Len(json_response.items) :
            LET w == json_response.items[j]
                v == outcome.value.items[j]
            IN  IF "error" \in DOMAIN w
                THEN v.type = "JsonRpcError" /\ v.code = w.error
                ELSE v = w.result

\* three responses for one request, an error first and no id in request order
C11_Witness ==
    /\ Answered("batch")
    /\ ~save_order
    /\ Len(request.requests) = 1
    /\ Truthy(json_response)
    /\ Len(json_response.items) = 3
    /\ "error" \in DOMAIN json_response.items[1]
    /\ json_response.items[1].id # request.requests[1].id
    /\ outcome.kind = "return"
    /\ Len(outcome.value.items) = 3

\* C17: send_json is told without_response exactly when the request has no
\* id (a batch: when no member has one), and then the operation ends without
\* a response whatever the transport handed back.
C17_WithoutResponse ==
    /\ \A k \in 1..Len(wire) :
        wire[k].without_response <=>
            IF op \in {"call", "notify"}
            THEN "id" \notin DOMAIN wire[k].data
            ELSE \A i \in 1..Len(wire[k].data) : "id" \notin DOMAIN wire[k].data[i]
    /\ \A name \in {"notify", "batch_notify", "batch"} :
        (Answered(name) /\ wire[1].without_response)
            => outcome = (IF name = "batch" THEN Raise(AssertionError) ELSE Return(None))

\* a batch of a notification and a request with an id is sent as one that
\* expects a response
C17_Witness ==
    /\ op = "batch_notify"
    /\ Len(wire) = 1
    /\ Len(wire[1].data) = 2
    /\ "id" \notin DOMAIN wire[1].data[1]
    /\ "id" \in DOMAIN wire[1].data[2]
    /\ ~wire[1].without_response

\* the operation failed before it had a request to send
ValidationFailed ==
    /\ pc = "done"
    /\ \/ request = None
       \/ request.type = "JsonRpcBatchRequest" /\ Len(request.requests) = 0

\* C18: an operation calls send_json at most once, and not at all when it
\* fails validation (an empty batch, a malformed description, args together
\* with kwargs): the error is raised before anything goes to the transport.
C18_AtMostOneSend ==
    /\ Len(wire) <= 1
    /\ pc = "idle" => wire = <<>>
    /\ ValidationFailed =>
        /\ wire = <<>>
        /\ outcome \in {Raise(InvalidParams), Raise(InvalidRequest)}
    /\ outcome = Raise(InvalidParams) => wire = <<>>

\* batch() of a list with a malformed description
C18_Witness ==
    /\ op = "batch"
    /\ pc = "done"
    /\ request = None
    /\ outcome = Raise(InvalidParams)
    /\ wire = <<>>

\* what call() raises for a single response that carries the error object
\* of the wire response w
CallRaises(w) ==
    call_rest(direct_call_rest(JsonRpcRequest("m", JsonInt(1), NOTHING, None, None),
                               w, ParseError)).error

\* C19: the error a batch() result holds for a response item is the error
\* call() raises for a single response with the same error object, also
\* when the client maps the code to an error class of its own.
C19_SameErrorTable ==
    ( /\ Answered("batch")
      /\ ~save_order
      /\ outcome.kind = "return" )
    => \A j \in 1..Len(json_response.items) :
          "error" \in DOMAIN json_response.items[j]
              => outcome.value.items[j] = CallRaises(json_response.items[j])

\* C20: batch() of a non-empty batch of notifications sends it once, without
\* response, and ends in the assertion fault, with either save_order.
C20_NotificationBatch ==
    ( /\ op = "batch"
      /\ request.type = "JsonRpcBatchRequest"
      /\ Len(request.requests) > 0
      /\ batch_is_notification(request) )
    => /\ Len(wire) = 1
       /\ wire[1].without_response
       /\ wire[1].data = to_list(request)
       /\ pc = "done" => outcome \in {Raise(AssertionError), Raise(TransportError)}

\* a batch of two pre-built notifications, save_order=False
C20_Witness ==
    /\ Answered("batch")
    /\ ~save_order
    /\ Len(request.requests) = 2
    /\ batch_is_notification(request)
    /\ outcome = Raise(AssertionError)

-----------------------------------------------------------------------------
(* Properties of the session *)

Happened(e) == \E i \in 1..Len(events) : events[i] = e
ExitEvents == {"exit_normal", "exit_exception", "exit_cancelled"}

\* no operation starts before connect() has returned
ConnectFirst == (pc # "idle" \/ wire # <<>>) => Happened("connect")

\* C10 as stated: operations run after connect completed, and every session
\* that is over, the one whose connect failed included, called disconnect.
C10_DisconnectAlways ==
    /\ ConnectFirst
    /\ scope = "closed" => Happened("disconnect")

\* C10 as amended: operations run after connect completed, and disconnect is
\* called on every way out of the body (its end, an exception, a
\* cancellation); when connect itself fails the body does not run and
\* disconnect is not called.
C10_DisconnectAfterBody ==
    /\ ConnectFirst
    /\ (Happened("connect") /\ scope \in {"disconnecting", "closed"})
        => /\ \E i \in 1..Len(events) : events[i] \in ExitEvents
           /\ \A i \in 1..Len(events) :
                events[i] \in ExitEvents => i < Len(events) /\ events[i + 1] = "disconnect"
    /\ Happened("connect_failed") => ~Happened("disconnect") /\ pc = "idle" /\ wire = <<>>

\* a session cancelled in the middle of an operation is closed by disconnect
C10_Witness ==
    /\ scope = "closed"
    /\ Happened("exit_cancelled")
    /\ Happened("disconnect")
    /\ outcome = Raise(CancelledError)

-----------------------------------------------------------------------------
(* client/base.py called from several asyncio tasks on one client.  A task *)
(* runs one call() or batch(); everything an operation computes with is a  *)
(* parameter or a local variable of its coroutine, kept here in the task's *)
(* own record; the client object and the transport are shared.             *)

Tasks == {"a", "b"}

\* longest batch a task sends
ConcReq == 2
\* longest list the transport returns to a task
ConcResp == 1

\* the wire responses the shared transport hands out
ConcWireResponses ==
    {[id |-> JsonInt(1), result |-> JsonStr("x")],
     [id |-> JsonInt(2), error |-> -32601],
     [id |-> None, result |-> JsonStr("x")]}
ConcRawSingle == {None} \cup ConcWireResponses
ConcRawBatch == {None} \cup {PyList(rs) : rs \in SeqsOf(ConcWireResponses, 0, ConcResp)}

\* batch(["m", ...]) as a task calls it
ConcMethodDescriptions ==
    {[form |-> "iterable", items |-> ds] :
        ds \in SeqsOf({[form |-> "str", method |-> m] : m \in Methods}, 1, ConcReq)}

IdleTask ==
    [pc |-> "idle", op |-> "none", request |-> None, save_order |-> TRUE, sent |-> 0,
     json_response |-> None, outcome |-> Pending]

InitConcurrent ==
    /\ pc = "idle"
    /\ op = "none"
    /\ request = None
    /\ save_order = TRUE
    /\ wire = <<>>
    /\ json_response = None
    /\ outcome = Pending
    /\ scope = "outside"
    /\ events = <<>>
    /\ client = [error_map |-> DEFAULT_KNOWN_ERRORS]
    /\ construction = None
    /\ tasks = [t \in Tasks |-> IdleTask]

concurrentFrame ==
    <<pc, op, request, save_order, json_response, outcome, sessionVars, client, construction>>

\* the task's send_json call: the payload goes to the shared transport and
\* the task suspends
task_send_json(t, name, req, so, data, without_response) ==
    /\ wire' = Append(wire, [data |-> data, without_response |-> without_response,
                             task |-> t])
    /\ tasks' = [tasks EXCEPT ![t] = [@ EXCEPT !.pc = "awaiting", !.op = name,
                                                !.request = req, !.save_order = so,
                                                !.sent = Len(wire) + 1]]

\* lines 42-44 and 91-98 in task t
task_call(t) ==
    /\ tasks[t].pc = "idle"
    /\ \E method_name \in Methods, random_id \in Ids :
        LET req == JsonRpcRequest(method_name, random_id, NOTHING, PyList(<<>>), PyDict({}))
        IN  task_send_json(t, "call", req, TRUE, to_dict(req), is_notification(req))
    /\ UNCHANGED concurrentFrame

\* lines 57-68 and 111-123 in task t
task_batch(t) ==
    /\ tasks[t].pc = "idle"
    /\ \E method_descriptions \in ConcMethodDescriptions, so \in BOOLEAN,
          random_ids \in [1..ConcReq -> Ids] :
        LET built == BuildBatchRequest(method_descriptions, FALSE, random_ids)
        IN  task_send_json(t, "batch", built, so, to_list(built),
                           batch_is_notification(built))
    /\ UNCHANGED concurrentFrame

\* the batch request an operation goes on with after its await, were it
\* kept on the client object: the one of the latest batch sent by any task
task_batch_request_on_client(t) ==
    LET sends == {i \in 1..Len(wire) : tasks[wire[i].task].op = "batch"}
        last == CHOOSE i \in sends : \A k \in sends : k <= i
    IN  tasks[wire[last].task].request

\* lines 60-68: batch_request, a local variable of the coroutine
task_batch_request(t) == tasks[t].request

\* lines 43-44 and 91: request, a local variable / parameter of the coroutine
task_request(t) == tasks[t].request

\* the transport returns raw to the send of task t, and t runs to its end
task_resume(t, raw, result) ==
    tasks' = [tasks EXCEPT ![t] = [@ EXCEPT !.pc = "done", !.json_response = raw,
                                                !.outcome = result]]

\* lines 100-109 and 46-51 in task t
task_call_return(t) ==
    /\ tasks[t].pc = "awaiting"
    /\ tasks[t].op = "call"
    /\ \E raw \in ConcRawSingle, fault \in FromDictFaults :
        task_resume(t, raw, call_rest(direct_call_rest(task_request(t), raw, fault)))
    /\ UNCHANGED <<wire, concurrentFrame>>

\* lines 125-131 and 70-78 in task t
task_batch_return(t) ==
    /\ tasks[t].pc = "awaiting"
    /\ tasks[t].op = "batch"
    /\ \E raw \in ConcRawBatch :
        task_resume(t, raw, batch_rest(task_batch_request(t),
                                       direct_batch_rest(task_batch_request(t), raw),
                                       tasks[t].save_order))
    /\ UNCHANGED <<wire, concurrentFrame>>

\* send_json raises in task t
task_send_json_raises(t) ==
    /\ tasks[t].pc = "awaiting"
    /\ tasks' = [tasks EXCEPT ![t] = [@ EXCEPT !.pc = "done",
                                                !.outcome = Raise(TransportError)]]
    /\ UNCHANGED <<wire, concurrentFrame>>

\* the event loop runs whichever task is ready
NextConcurrent ==
    \/ \E t \in Tasks : task_call(t)
    \/ \E t \in Tasks : task_batch(t)
    \/ \E t \in Tasks : task_call_return(t)
    \/ \E t \in Tasks : task_batch_return(t)
    \/ \E t \in Tasks : task_send_json_raises(t)

SpecConcurrent == InitConcurrent /\ [][NextConcurrent]_vars

-----------------------------------------------------------------------------
(* Properties of request construction, under SpecRequest *)

Built(how) ==
    /\ construction.pc \in {"built", "serialized", "parsed"}
    /\ construction.input.how = how

EmptyList == PyList(<<>>)
EmptyDict == PyDict({})

\* (params, args, kwargs) of a request whose source is (args, kwargs)
FromArgsAndKwargs(r, args, kwargs) ==
    /\ ~(Truthy(args) /\ Truthy(kwargs))
    /\ r.args = (IF Truthy(args) THEN args ELSE EmptyList)
    /\ r.kwargs = (IF Truthy(kwargs) THEN kwargs ELSE EmptyDict)
    /\ r.params = (IF Truthy(args) THEN args
                   ELSE IF Truthy(kwargs) THEN kwargs ELSE NOTHING)

\* (params, args, kwargs) of a request whose source is params
FromParams(r, params) ==
    /\ r.params = params
    /\ params.type = "list" => r.args = params /\ r.kwargs = EmptyDict
    /\ params.type = "dict" => r.args = EmptyList /\ r.kwargs = params

C13_WireKeys ==
    construction.pc \in {"serialized", "parsed"} =>
        LET r == construction.request
            data == construction.data
        IN  /\ is_notification(r) <=> r.id = None
            /\ "id" \in DOMAIN data <=> ~is_notification(r)
            /\ "id" \in DOMAIN data => data.id = r.id
            /\ "params" \in DOMAIN data <=> r.params # NOTHING
            /\ "params" \in DOMAIN data => data.params = r.params
            /\ data.method = JsonStr(r.method_name)
            /\ data.jsonrpc = JsonStr(r.jsonrpc)

\* a notification with params=None is written without "id", with params null
C13_Witness ==
    /\ construction.pc = "serialized"
    /\ construction.request.id = None
    /\ construction.request.params = None
    /\ "id" \notin DOMAIN construction.data
    /\ "params" \in DOMAIN construction.data
    /\ construction.data.params = None

\* the request was built from (args, kwargs): by the constructor without
\* params, or from a description (method, args, kwargs)
FromArgs ==
    \/ construction.input.how = "init" /\ construction.input.params = NOTHING
    \/ /\ construction.input.how = "description"
       /\ construction.input.description.form = "seq"
       /\ Len(construction.input.description.items) = 3

\* C14: from_dict(r.to_dict()) of a request built from (args, kwargs) is a
\* request with the method name, id, version and canonical params of r
C14_RoundTrip ==
    (construction.pc = "parsed" /\ FromArgs) =>
        LET r == construction.request
            parsed == construction.parsed
        IN  /\ ~IsError(parsed)
            /\ parsed.type = "JsonRpcRequest"
            /\ parsed.method_name = r.method_name
            /\ parsed.id = r.id
            /\ parsed.jsonrpc = r.jsonrpc
            /\ parsed.params = r.params
            /\ is_notification(parsed) <=> is_notification(r)

\* a notification built without arguments comes back with no params
C14_Witness ==
    /\ construction.pc = "parsed"
    /\ FromArgs
    /\ construction.request.id = None
    /\ construction.request.params = NOTHING
    /\ "params" \notin DOMAIN construction.data
    /\ construction.parsed.params = NOTHING
    /\ construction.parsed.id = None

\* C16: a string or a one-item list gives a request without params, a
\* two-item list (method, params), a three-item list (method, args, kwargs);
\* an empty list or one of four and more items raises InvalidParams; the id
\* of a request built from shorthand is None iff a notification was asked for
C16_DescriptionShapes ==
    Built("description") =>
        LET i == construction.input
            d == i.description
            r == construction.request
        IN  /\ d.form = "str" =>
                  /\ r.type = "JsonRpcRequest"
                  /\ r.method_name = d.method
                  /\ r.params = NOTHING
            /\ (d.form = "seq" /\ Len(d.items) = 1) =>
                  /\ r.type = "JsonRpcRequest"
                  /\ r.method_name = d.items[1]
                  /\ r.params = NOTHING
            /\ (d.form = "seq" /\ Len(d.items) = 2) =>
                  /\ r.type = "JsonRpcRequest"
                  /\ r.method_name = d.items[1]
                  /\ FromParams(r, d.items[2])
            /\ (d.form = "seq" /\ Len(d.items) = 3) =>
                  \/ /\ Truthy(d.items[2]) /\ Truthy(d.items[3])
                     /\ r = InvalidParams
                  \/ /\ r.type = "JsonRpcRequest"
                     /\ r.method_name = d.items[1]
                     /\ FromArgsAndKwargs(r, d.items[2], d.items[3])
            /\ (d.form = "seq" /\ Len(d.items) \notin {1, 2, 3}) => r = InvalidParams
            /\ (d.form # "request" /\ ~IsError(r)) =>
                  /\ r.id = None <=> i.notification
                  /\ ~i.notification => r.id = i.random_id

\* a list of four items was rejected with InvalidParams
C16_Witness ==
    /\ Built("description")
    /\ construction.input.description.form = "seq"
    /\ Len(construction.input.description.items) = 4
    /\ construction.request = InvalidParams

-----------------------------------------------------------------------------
(* Properties of concurrent operations, under SpecConcurrent *)

\* the outcomes of the operation run alone on (req, so) and answered with raw
SequentialOutcomes(name, req, so, raw) ==
    IF name = "call"
    THEN {call_rest(direct_call_rest(req, raw, fault)) : fault \in FromDictFaults}
    ELSE {batch_rest(req, direct_batch_rest(req, raw), so)}

\* task t was answered by the transport and ran to its end
TaskAnswered(t) ==
    /\ tasks[t].pc = "done"
    /\ tasks[t].outcome # Raise(TransportError)

\* the other task sent its own payload between the send of t and its answer
Interleaved(t) ==
    \E u \in Tasks \ {t} : tasks[u].sent > tasks[t].sent

====
